---- MODULE Spec2Model ----
(***************************************************************************)
(* Model of the batch-reply orchestrator of pr_comments.py                 *)
(* (reply_batch_from_json and the helpers it calls) run, one invocation    *)
(* after the other, against one pull request's review-comment state.       *)
(*                                                                         *)
(* JSON values are tagged records; a JSON object is a function whose       *)
(* DOMAIN is the set of keys present.  Strings that the code inspects      *)
(* (bodies, the prompt answer, comment URLs) are sequences of characters   *)
(* or tokens, so that strip/lower/rstrip/regex are computed, not assumed.  *)
(***************************************************************************)
EXTENDS Integers, Sequences, FiniteSets, TLC

(* ------------------------------ bounds -------------------------------- *)
\* longest replies[] array of a job document
MaxItems == 2
\* most replies the platform stores before the model stops accepting posts
MaxPosts == 2

(* --------------------------- JSON values ------------------------------ *)
JInt(n)  == [t |-> "int", n |-> n]
JStr(s)  == [t |-> "str", s |-> s]
JBool(b) == [t |-> "bool", b |-> b]
JNull    == [t |-> "null"]
JList(l) == [t |-> "list", l |-> l]

Has(d, k) == k \in DOMAIN d

\* dict.get(k): None when the key is missing
Get(d, k) == IF Has(d, k) THEN d[k] ELSE JNull

\* Python truthiness of a JSON value
Truthy(v) ==
    CASE v.t = "null" -> FALSE
      [] v.t = "bool" -> v.b
      [] v.t = "int"  -> v.n # 0
      [] v.t = "str"  -> v.s # <<>>
      [] v.t = "list" -> v.l # <<>>

\* a or b
PyOr(a, b) == IF Truthy(a) THEN a ELSE b

(* --------------------------- string helpers --------------------------- *)
Whitespace == {" ", "\n"}

RECURSIVE RStrip(_)
RStrip(s) ==
    IF s # <<>> /\ s[Len(s)] \in Whitespace
    THEN RStrip(SubSeq(s, 1, Len(s) - 1))
    ELSE s

RECURSIVE LStrip(_)
LStrip(s) ==
    IF s # <<>> /\ s[1] \in Whitespace THEN LStrip(Tail(s)) ELSE s

Strip(s) == LStrip(RStrip(s))

LowerChar(c) == IF c = "Y" THEN "y" ELSE IF c = "N" THEN "n" ELSE c
Lower(s) == [i \in 1..Len(s) |-> LowerChar(s[i])]

Digits == {"0", "1", "2", "3", "4", "5", "6", "7", "8", "9"}
DigitVal(c) ==
    CASE c = "0" -> 0 [] c = "1" -> 1 [] c = "2" -> 2 [] c = "3" -> 3
      [] c = "4" -> 4 [] c = "5" -> 5 [] c = "6" -> 6 [] c = "7" -> 7
      [] c = "8" -> 8 [] c = "9" -> 9

\* int("<digits>")
RECURSIVE DigitsToInt(_)
DigitsToInt(s) ==
    IF s = <<>> THEN 0
    ELSE 10 * DigitsToInt(SubSeq(s, 1, Len(s) - 1)) + DigitVal(s[Len(s)])

AllDigits(s) == s # <<>> /\ \A i \in 1..Len(s) : s[i] \in Digits


(* ------------------------- the job document --------------------------- *)
\* a comment URL is a sequence of tokens: ordinary text, the fragment
\* prefix "#discussion_r", digits, and other characters
UrlTo3   == JStr(<<"https://h/o/r/pull/9", "#discussion_r", "3">>)
UrlNoRef == JStr(<<"https://h/o/r/pull/9", "#discussion_r", "3", "x">>)

\* replies[] items the job documents are built from
ItemRoot    == [comment_id |-> JInt(1), body |-> JStr(<<"F", " ">>),
                react |-> JStr(<<"eyes">>), resolve |-> JBool(TRUE)]
ItemSub     == [comment_id |-> JInt(2), body |-> JStr(<<"b">>),
                resolve |-> JBool(FALSE)]
ItemUrl     == [comment |-> UrlTo3, body |-> JStr(<<"c">>)]
ItemNoRef   == [comment_id |-> JNull, comment |-> UrlNoRef, body |-> JStr(<<"d">>)]
ItemBadBody == [comment_id |-> JInt(1), comment |-> UrlTo3, body |-> JInt(5)]
ItemBare    == [body |-> JStr(<<"e">>)]

Items == {ItemRoot, ItemSub, ItemUrl, ItemNoRef}

RECURSIVE SeqsUpTo(_, _)
SeqsUpTo(S, n) ==
    IF n = 0 THEN {<<>>}
    ELSE LET shorter == SeqsUpTo(S, n - 1)
         IN  shorter \cup {Append(q, x) : q \in {r \in shorter : Len(r) = n - 1}, x \in S}

ReplyLists == {l \in SeqsUpTo(Items, MaxItems) : l # <<>>}

\* policy objects that ask for no confirmation: each other key present or
\* missing
PolicyOf(a, r, f) ==
    [confirm |-> JBool(FALSE)]
    @@ (IF a THEN [auto_resolve |-> JBool(TRUE)] ELSE <<>>)
    @@ (IF r THEN [react_default |-> JStr(<<"+1">>)] ELSE <<>>)
    @@ (IF f THEN [fail_on_error |-> JBool(TRUE)] ELSE <<>>)

Policies ==
    {PolicyOf(a, r, f) : a \in BOOLEAN, r \in BOOLEAN, f \in BOOLEAN}

\* policy objects under which the prompt is shown
PromptPolicies ==
    { <<>>,
      [confirm |-> JBool(TRUE)],
      [confirm |-> JBool(TRUE), fail_on_error |-> JBool(TRUE)],
      [confirm |-> JNull, fail_on_error |-> JBool(FALSE)] }

GoodMeta == [owner |-> JStr(<<"o">>), repo |-> JStr(<<"r">>), pr |-> JInt(9)]

\* meta objects with a missing or ill-typed member
OddMetas ==
    { [repo |-> JStr(<<"r">>), pr |-> JInt(9)],
      [owner |-> JStr(<<"o">>), pr |-> JInt(9)],
      [owner |-> JStr(<<"o">>), repo |-> JStr(<<"r">>)],
      [owner |-> JInt(5), repo |-> JStr(<<"r">>), pr |-> JInt(9)],
      [owner |-> JStr(<<"o">>), repo |-> JNull, pr |-> JInt(9)],
      [owner |-> JStr(<<"o">>), repo |-> JStr(<<"r">>), pr |-> JInt(0)],
      [owner |-> JStr(<<"o">>), repo |-> JStr(<<"r">>), pr |-> JInt(-1)],
      [owner |-> JStr(<<"o">>), repo |-> JStr(<<"r">>), pr |-> JStr(<<"9">>)],
      [owner |-> JStr(<<"o">>), repo |-> JStr(<<"r">>), pr |-> JStr(<<"x">>)],
      [owner |-> JStr(<<"o">>), repo |-> JStr(<<"r">>), pr |-> JNull] }

PlainPolicy == [confirm |-> JBool(FALSE)]

\* the job documents an invocation may be given
Docs ==
    {[meta |-> GoodMeta, policy |-> p, replies |-> JList(l)] :
        p \in Policies, l \in ReplyLists}
    \cup {[meta |-> m, policy |-> PlainPolicy, replies |-> JList(<<ItemRoot>>)] :
        m \in OddMetas}
    \cup {[meta |-> GoodMeta, policy |-> p, replies |-> JList(l)] :
        p \in PromptPolicies, l \in {<<ItemRoot>>, <<ItemNoRef, ItemSub>>}}
    \cup {[meta |-> GoodMeta, policy |-> p, replies |-> JList(l)] :
        p \in {PlainPolicy, [confirm |-> JBool(FALSE), fail_on_error |-> JBool(TRUE)]},
        l \in {<<ItemBadBody>>, <<ItemRoot, ItemBadBody>>, <<ItemBadBody, ItemUrl>>,
               <<ItemBare, ItemUrl>>}}
    \cup { [policy |-> PlainPolicy, replies |-> JList(<<ItemRoot>>)],
           [meta |-> GoodMeta, policy |-> PlainPolicy],
           [meta |-> GoodMeta, policy |-> PlainPolicy, replies |-> JList(<<>>)],
           [meta |-> GoodMeta, policy |-> PlainPolicy, replies |-> JStr(<<"x">>)],
           [meta |-> GoodMeta, replies |-> JList(<<ItemUrl>>)] }

\* a job document and what its file may be edited to between two
\* invocations: a policy flag set, an item added, the added item's body
\* changed, the first item's body changed
ItemUrlEdited  == [ItemUrl EXCEPT !.body = JStr(<<"d">>)]
ItemRootEdited == [ItemRoot EXCEPT !.body = JStr(<<"F">>)]

EditDocs ==
    { [meta |-> GoodMeta, policy |-> PlainPolicy, replies |-> JList(<<ItemRoot>>)],
      [meta |-> GoodMeta, policy |-> PolicyOf(FALSE, TRUE, FALSE),
       replies |-> JList(<<ItemRoot>>)],
      [meta |-> GoodMeta, policy |-> PlainPolicy, replies |-> JList(<<ItemRoot, ItemUrl>>)],
      [meta |-> GoodMeta, policy |-> PlainPolicy,
       replies |-> JList(<<ItemRoot, ItemUrlEdited>>)],
      [meta |-> GoodMeta, policy |-> PlainPolicy, replies |-> JList(<<ItemRootEdited>>)] }

(* -------------------- validation (lines 186-198) ---------------------- *)
\* int(v) succeeds
IntOk(v) ==
    CASE v.t = "int"  -> TRUE
      [] v.t = "bool" -> TRUE
      [] v.t = "str"  -> AllDigits(v.s) \/ (Len(v.s) > 1 /\ v.s[1] = "-" /\ AllDigits(Tail(v.s)))
      [] OTHER        -> FALSE

\* int(v)
IntOf(v) ==
    CASE v.t = "int"  -> v.n
      [] v.t = "bool" -> IF v.b THEN 1 ELSE 0
      [] v.t = "str"  -> IF v.s[1] = "-" THEN 0 - DigitsToInt(Tail(v.s)) ELSE DigitsToInt(v.s)

\* the validate block raises nothing
ValidSpec(d) ==
    /\ Has(d, "meta")
    /\ Has(d.meta, "owner")
    /\ Has(d.meta, "repo")
    /\ Has(d.meta, "pr")
    /\ IntOk(d.meta.pr)
    /\ IF Has(d, "replies")
       THEN d.replies.t = "list" /\ d.replies.l # <<>>
       ELSE FALSE

\* policy = spec.get("policy", {})
Policy(d) == IF Has(d, "policy") THEN d.policy ELSE <<>>

PolicyGet(d, k) == Get(Policy(d), k)

\* policy.get("confirm", True)
ConfirmWanted(d) ==
    IF Has(Policy(d), "confirm") THEN Truthy(Policy(d).confirm) ELSE TRUE

FailOnError(d) == Truthy(PolicyGet(d, "fail_on_error"))

\* the keys of the JSON contract, in the order sorted() puts them
KeyOrder ==
    << "auto_resolve", "body", "comment", "comment_id", "confirm",
       "fail_on_error", "meta", "owner", "policy", "pr", "react",
       "react_default", "replies", "repo", "resolve" >>

KeyRank(k) == CHOOSE i \in 1..Len(KeyOrder) : KeyOrder[i] = k

\* the keys ks as a sequence in sorted order
SortedKeys(ks) ==
    [i \in 1..Cardinality(ks) |->
        CHOOSE k \in ks : Cardinality({j \in ks : KeyRank(j) < KeyRank(k)}) = i - 1]

\* json.load: the dict a file with content v yields keeps the file's key
\* order, here sorted (desc false) or reverse sorted (desc true) in every
\* object; a dict is [t |-> "dict", kv |-> <<key, value>> pairs in order]
RECURSIVE JsonLoad(_, _)
JsonLoad(v, desc) ==
    IF "t" \in DOMAIN v
    THEN IF v.t = "list"
         THEN [t |-> "list", l |-> [i \in 1..Len(v.l) |-> JsonLoad(v.l[i], desc)]]
         ELSE v
    ELSE LET n   == Cardinality(DOMAIN v)
             asc == SortedKeys(DOMAIN v)
             key(i) == IF desc THEN asc[n + 1 - i] ELSE asc[i]
         IN  [t |-> "dict", kv |-> [i \in 1..n |-> <<key(i), JsonLoad(v[key(i)], desc)>>]]

\* the dicts json.load may return for a file with content d
Loads(d) == {JsonLoad(d, desc) : desc \in BOOLEAN}

\* a dump that keeps the dict's own key order
UnsortedItems(kv) == kv

\* sort_keys=True: the dict's items ordered by key
SortedItems(kv) ==
    [i \in 1..Len(kv) |->
        CHOOSE p \in {kv[j] : j \in 1..Len(kv)} :
            Cardinality({j \in 1..Len(kv) : KeyRank(kv[j][1]) < KeyRank(p[1])}) = i - 1]

\* the strings a document's values are built from
TokenOrder ==
    << " ", "#discussion_r", "+1", "3", "9", "F", "b", "c", "d", "e", "eyes",
       "https://h/o/r/pull/9", "o", "r", "u", "x", "z" >>

TokenCode(tok) == 40 + (CHOOSE i \in 1..Len(TokenOrder) : TokenOrder[i] = tok)

\* the encoded text of a value that is no dict and no list
DumpScalar(v) ==
    CASE v.t = "null" -> <<10>>
      [] v.t = "bool" -> IF v.b THEN <<8>> ELSE <<9>>
      [] v.t = "int"  -> <<100 + v.n>>
      [] v.t = "str"  -> <<7>> \o [i \in 1..Len(v.s) |-> TokenCode(v.s[i])] \o <<7>>

\* json.dumps(spec, sort_keys=True).encode("utf-8"): the text as a sequence
\* of codes, 1 and 2 the braces, 3 and 4 the brackets, 6 the comma
RECURSIVE Dumps(_), DumpItems(_), DumpList(_)
Dumps(v) ==
    IF v.t = "dict" THEN <<1>> \o DumpItems(SortedItems(v.kv)) \o <<2>>
    ELSE IF v.t = "list" THEN <<3>> \o DumpList(v.l) \o <<4>>
    ELSE DumpScalar(v)

DumpItems(kv) ==
    IF kv = <<>> THEN <<>>
    ELSE <<20 + KeyRank(kv[1][1])>> \o Dumps(kv[1][2]) \o <<6>> \o DumpItems(Tail(kv))

DumpList(l) ==
    IF l = <<>> THEN <<>>
    ELSE Dumps(l[1]) \o <<6>> \o DumpList(Tail(l))

\* the hash's two moduli and multipliers: 12 hex digits in the code, two
\* residues here
HashModA == 32749
HashModB == 32719
HashMulA == 31
HashMulB == 37

\* b^n mod m, by squaring
RECURSIVE PowMod(_, _, _)
PowMod(b, n, m) ==
    IF n = 0 THEN 1
    ELSE LET h == PowMod(b, n \div 2, m)
         IN  IF n % 2 = 0 THEN (h * h) % m ELSE (((h * h) % m) * b) % m

\* the polynomial hash of text with multiplier b modulo m, by halves
RECURSIVE PolyHash(_, _, _)
PolyHash(text, b, m) ==
    IF text = <<>> THEN 0
    ELSE IF Len(text) = 1 THEN text[1] % m
    ELSE LET k     == Len(text) \div 2
             left  == SubSeq(text, 1, k)
             right == SubSeq(text, k + 1, Len(text))
         IN  (PolyHash(left, b, m) * PowMod(b, Len(right), m) + PolyHash(right, b, m)) % m

\* sha256(text).hexdigest()[:12] as a position-sensitive hash of the text
Sha(text) ==
    <<PolyHash(text, HashMulA, HashModA), PolyHash(text, HashMulB, HashModB)>>

\* line 198: fp
Fingerprint(spec) == [digest |-> Sha(Dumps(spec))]

Replies(d) == d.replies.l

\* line 198 for every job document: the fingerprints its file gives, over
\* the key orders the file may be written in
LoadFps == [d \in Docs \cup EditDocs |-> {Fingerprint(spec) : spec \in Loads(d)}]

(* --------------------- marker and reference helpers ------------------- *)
\* a marker that names the parent only
MarkerOfParent(fp, parent_id) == [fp |-> [digest |-> <<>>], parent |-> parent_id]

\* _marker(fp, parent_id)
Marker(fp, parent_id) == [fp |-> fp, parent |-> parent_id]

\* re.search(r"#discussion_r(\d+)$", url): the position of the fragment
\* prefix that only digits follow, 0 when there is none
RefMatch(url) ==
    LET hits == {k \in 1..Len(url) :
                    url[k] = "#discussion_r" /\ AllDigits(SubSeq(url, k + 1, Len(url)))}
    IN  IF hits = {} THEN 0 ELSE CHOOSE k \in hits : TRUE

\* _parse_comment_ref raises nothing
RefOk(item) ==
    IF Has(item, "comment_id") /\ item.comment_id.t # "null"
    THEN IntOk(item.comment_id)
    ELSE IF Has(item, "comment") /\ item.comment.t = "str"
         THEN RefMatch(item.comment.s) # 0
         ELSE FALSE

\* _parse_comment_ref trying the comment URL before comment_id
ParseCommentRefUrlFirst(item) ==
    IF Has(item, "comment") /\ item.comment.t = "str" /\ RefMatch(item.comment.s) # 0
    THEN LET url == item.comment.s
         IN  DigitsToInt(SubSeq(url, RefMatch(url) + 1, Len(url)))
    ELSE IntOf(item.comment_id)

\* _parse_comment_ref(item)
ParseCommentRef(item) ==
    IF Has(item, "comment_id") /\ item.comment_id.t # "null"
    THEN IntOf(item.comment_id)
    ELSE LET url == item.comment.s
         IN  DigitsToInt(SubSeq(url, RefMatch(url) + 1, Len(url)))

\* (item.get("body") or "").rstrip() raises nothing
BodyOk(item) ==
    LET b == PyOr(Get(item, "body"), JStr(<<>>)) IN b.t = "str"

\* the body with the marker appended and nothing trimmed
ReplyBodyUntrimmed(item, fp, parent_id) ==
    [text    |-> PyOr(Get(item, "body"), JStr(<<>>)).s \o <<"\n", "\n">>,
     markers |-> {Marker(fp, parent_id)}]

\* body = (item.get("body") or "").rstrip() + "\n\n" + _marker(fp, parent_id)
ReplyBody(item, fp, parent_id) ==
    [text    |-> RStrip(PyOr(Get(item, "body"), JStr(<<>>)).s) \o <<"\n", "\n">>,
     markers |-> {Marker(fp, parent_id)}]

\* react = item.get("react") or policy.get("react_default")
EffReact(d, item) == PyOr(Get(item, "react"), PolicyGet(d, "react_default"))

\* want_resolve = bool(item.get("resolve") or policy.get("auto_resolve"))
WantResolve(d, item) == Truthy(PyOr(Get(item, "resolve"), PolicyGet(d, "auto_resolve")))


(* ------------------------- the platform side -------------------------- *)
\* a job of another submission, whose marker some reply already carries
ForeignFp ==
    Fingerprint(JsonLoad([meta |-> GoodMeta, replies |-> JList(<<ItemSub>>)], FALSE))

NoMarkers == {m \in {Marker(ForeignFp, 1)} : FALSE}

\* the pull request's review comments before any run: roots 1 and 3, reply
\* 2 under root 1, and reply 4 under root 1 left by another job.  "item" is
\* history: the replies[] position whose Reply step created the comment.
InitComments ==
    << [id |-> 1, in_reply_to_id |-> JNull,   body |-> [text |-> <<"q">>, markers |-> NoMarkers], item |-> 0],
       [id |-> 2, in_reply_to_id |-> JInt(1), body |-> [text |-> <<"s">>, markers |-> NoMarkers], item |-> 0],
       [id |-> 3, in_reply_to_id |-> JNull,   body |-> [text |-> <<"t">>, markers |-> NoMarkers], item |-> 0],
       [id |-> 4, in_reply_to_id |-> JInt(1),
        body |-> [text |-> <<"u">>, markers |-> {Marker(ForeignFp, 1)}], item |-> 0] >>

\* threads are named by their root comment; thread 3 starts resolved
InitResolved == {3}

CommentIds(cs) == {cs[k].id : k \in 1..Len(cs)}

CommentById(cs, id) == cs[CHOOSE k \in 1..Len(cs) : cs[k].id = id]

\* the root of the thread a comment belongs to: replies are kept flat, so a
\* comment's in_reply_to_id, when it has one, is its thread's root
RootOf(cs, id) ==
    LET c == CommentById(cs, id)
    IN  IF c.in_reply_to_id.t = "int" THEN c.in_reply_to_id.n ELSE id

\* POST .../pulls/{pr}/comments {in_reply_to, body}: the new comment is
\* filed at the thread level
PlatformReply(cs, parent_id, body, i) ==
    Append(cs, [id |-> Len(cs) + 1, in_reply_to_id |-> JInt(RootOf(cs, parent_id)),
                body |-> body, item |-> i])

\* _already_replied matching the listed comment's own id, not in_reply_to_id
AlreadyRepliedById(cs, parent_id, fp) ==
    \E k \in 1..Len(cs) :
        /\ cs[k].id = parent_id
        /\ Marker(fp, parent_id) \in cs[k].body.markers

\* _already_replied over a complete listing cs
AlreadyReplied(cs, parent_id, fp) ==
    \E k \in 1..Len(cs) :
        /\ cs[k].in_reply_to_id = JInt(parent_id)
        /\ Marker(fp, parent_id) \in cs[k].body.markers

\* statuses the reactions endpoint may answer with
ReactStatuses == {200, 201, 204, 422, 500}

\* _react_to_review_comment raises for this status
ReactRaises(status) ==
    /\ status \notin {200, 201, 422}
    /\ status >= 400
    /\ status < 600

\* answers typed at the prompt
AnswerChars == {"y", "Y", "n", " "}
Answers == {<<>>} \cup {<<a>> : a \in AnswerChars}
           \cup {<<a, b>> : a \in AnswerChars, b \in AnswerChars}

\* the prompt read as [Y/n]: anything but "n" proceeds
AffirmativeUnlessNo(answer) == Lower(Strip(answer)) # <<"n">>

\* input(...).strip().lower() == "y"
Affirmative(answer) == Lower(Strip(answer)) = <<"y">>


(* ------------------------------- state -------------------------------- *)
VARIABLES
    doc,          \* the job document in the file given to every invocation
    dry_run,      \* --dry-run of the current invocation
    pc,           \* where the current invocation of reply_batch_from_json is
    fp,           \* the fingerprint this invocation computed
    idx,          \* position in replies[] of the item the loop is at
    had_error,
    exit_status,  \* -1 while running, else the process's exit status
    prompts,      \* confirmation prompts shown by this invocation
    parent_id, body, react, want_resolve,   \* the loop body's locals
    comments,     \* the platform's review comments, in listing order
    resolved,     \* the platform's resolved threads
    calls,        \* transport calls made for the item the loop took up last
    fetched,      \* this invocation has made a transport call
    wrote,        \* this invocation has made a mutating transport call
    nStart,       \* how many comments existed when this invocation began
    line,         \* the report line printed last
    out,          \* the report lines printed for the item the loop took up last
    answer,       \* what was typed at the prompt the step just showed
    http,         \* status of the response the step just received, 0 if none
    ret           \* what reply_to_comment returned to main, "none" before

locals  == <<parent_id, body, react, want_resolve>>
remote  == <<comments, resolved>>
vars    == <<doc, dry_run, pc, fp, idx, had_error, exit_status, prompts,
             parent_id, body, react, want_resolve, comments, resolved,
             calls, fetched, wrote, nStart, line, out, answer, http, ret>>

NoFp   == [digest |-> <<>>]
NoBody == [text |-> <<>>, markers |-> NoMarkers]
NoLine == [step |-> "", id |-> 0, what |-> ""]
NoAnswer == <<"-">>
Line(step, id, what) == [step |-> step, id |-> id, what |-> what]

Terminal == {"rejected", "aborted", "crashed", "done"}

\* replies the runs have posted so far
Posted == Len(comments) - Len(InitComments)

Item == Replies(doc)[idx]

ClearLocals ==
    /\ parent_id' = 0
    /\ body' = NoBody
    /\ react' = JNull
    /\ want_resolve' = FALSE

Init ==
    /\ doc \in Docs
    /\ dry_run \in BOOLEAN
    /\ pc = "validate"
    /\ fp = NoFp
    /\ idx = 0
    /\ had_error = FALSE
    /\ exit_status = -1
    /\ prompts = 0
    /\ parent_id = 0
    /\ body = NoBody
    /\ react = JNull
    /\ want_resolve = FALSE
    /\ comments = InitComments
    /\ resolved = InitResolved
    /\ calls = {}
    /\ fetched = FALSE
    /\ wrote = FALSE
    /\ nStart = Len(InitComments)
    /\ line = NoLine
    /\ out = <<>>
    /\ answer = NoAnswer
    /\ http = 0
    /\ ret = "none"

(* ------------------------------ the console --------------------------- *)
\* print(f"{step} {id}: {what}") in the loop
Say(step, id, what) ==
    /\ line' = Line(step, id, what)
    /\ out' = Append(out, Line(step, id, what))

\* nothing is printed
Quiet == UNCHANGED <<line, out>>

(* --------------------------- transport calls -------------------------- *)
\* the calls that change the platform's state
Mutating == {"reply", "react", "resolve"}

\* the current item's step makes the transport calls `kinds`
Call(kinds) ==
    /\ calls' = calls \cup {<<idx, k>> : k \in kinds}
    /\ fetched' = TRUE
    /\ wrote' = (wrote \/ kinds \cap Mutating # {})

NoCall == UNCHANGED <<calls, fetched, wrote>>

(* ----------------------- control flow of the loop --------------------- *)
\* continue, or the end of the loop body: on to the next item, or out of
\* the loop when there is none
Continue ==
    /\ idx' = idx + 1
    /\ pc' = IF idx + 1 > Len(Replies(doc)) THEN "report" ELSE "item"
    /\ ClearLocals

\* break
Break ==
    /\ idx' = idx
    /\ pc' = "report"
    /\ ClearLocals

\* an except block that gives the rest of the item up
OnErrorContinue(after) ==
    /\ had_error' = TRUE
    /\ IF FailOnError(doc) THEN Break ELSE Continue

\* an except block of the loop: had_error, then break under fail_on_error
\* and otherwise `after`
OnError(after) ==
    /\ had_error' = TRUE
    /\ IF FailOnError(doc) THEN Break ELSE after

\* if want_resolve: ...
ToResolve ==
    IF want_resolve
    THEN pc' = "resolve" /\ idx' = idx /\ UNCHANGED locals
    ELSE Continue

\* the resolve step taken ahead of the reaction
ToResolveFirst ==
    IF want_resolve
    THEN pc' = "resolve" /\ idx' = idx /\ UNCHANGED locals
    ELSE IF Truthy(react)
    THEN pc' = "react" /\ idx' = idx /\ UNCHANGED locals
    ELSE Continue

\* if react: ...
ToReact ==
    IF Truthy(react)
    THEN pc' = "react" /\ idx' = idx /\ UNCHANGED locals
    ELSE ToResolve

\* the prompt's condition without its dry-run test
PromptWantedInDryRun == ConfirmWanted(doc)

\* if policy.get("confirm", True) and not dry_run
PromptWanted == ConfirmWanted(doc) /\ ~dry_run

\* lines 308-309: sys.exit(1), or the return that ends the process with 0
ExitCode == IF had_error /\ FailOnError(doc) THEN 1 ELSE 0

\* a lookup that never reports a thread as resolved
NeverResolved(thread_id) == FALSE

\* lines 141-153 and 295: isResolved of the thread the lookup returned
IsResolved(thread_id) == thread_id \in resolved

\* a skip that prints nothing
SkippedSilently ==
    /\ Quiet
    /\ Continue
    /\ had_error' = had_error

\* lines 235-237: the marker was found: one line, then continue
Skipped ==
    /\ Say("REPLY", parent_id, "skipped (marker)")
    /\ Continue
    /\ had_error' = had_error

\* a failed scan after which the reply is posted all the same
ScanFailedOpen ==
    /\ Say("REPLY", parent_id, "error during marker scan")
    /\ had_error' = TRUE
    /\ pc' = "reply"
    /\ UNCHANGED <<idx, locals>>

\* lines 238-243: the scan raised: one line, had_error, then break or
\* continue
ScanFailed ==
    /\ Say("REPLY", parent_id, "error during marker scan")
    /\ OnError(Continue)

(* ------------------------------ actions ------------------------------- *)
\* lines 180-208: read, validate, fingerprint, preview
Validate ==
    /\ pc = "validate"
    /\ IF ValidSpec(doc)
       THEN /\ pc' = "gate"
            /\ fp' \in LoadFps[doc]
            /\ exit_status' = exit_status
       ELSE /\ pc' = "rejected"
            /\ fp' = fp
            /\ exit_status' = 1
    /\ http' = 0
    /\ answer' = NoAnswer
    /\ UNCHANGED <<ret, doc, dry_run, idx, had_error, prompts, locals, remote,
                   calls, fetched, wrote, nStart, line, out>>

\* lines 210-216: the confirmation prompt, then had_error = False
Gate ==
    /\ pc = "gate"
    /\ IF PromptWanted
       THEN \E typed \in Answers :
               /\ prompts' = prompts + 1
               /\ answer' = typed
               /\ IF Affirmative(typed)
                  THEN /\ pc' = "item"
                       /\ idx' = 1
                       /\ line' = line
                       /\ exit_status' = exit_status
                  ELSE /\ pc' = "aborted"
                       /\ idx' = idx
                       /\ line' = Line("Aborted.", 0, "")
                       /\ exit_status' = 0
       ELSE /\ prompts' = prompts
            /\ answer' = NoAnswer
            /\ pc' = "item"
            /\ idx' = 1
            /\ line' = line
            /\ exit_status' = exit_status
    /\ had_error' = FALSE
    /\ http' = 0
    /\ UNCHANGED <<ret, doc, dry_run, fp, locals, remote, calls, fetched, wrote,
                   nStart, out>>

\* lines 218-230: resolve the item's reference, build body, react and
\* want_resolve
ItemBegin ==
    /\ pc = "item"
    /\ IF ~RefOk(Item)
       THEN /\ line' = Line("REPLY", 0, "error")
            /\ out' = <<Line("REPLY", 0, "error")>>
            /\ OnError(Continue)
            /\ exit_status' = exit_status
       ELSE IF ~BodyOk(Item)
       THEN \* .rstrip() of a non-string: the exception leaves the function
            /\ pc' = "crashed"
            /\ exit_status' = 1
            /\ parent_id' = ParseCommentRef(Item)
            /\ out' = <<>>
            /\ UNCHANGED <<idx, had_error, line, body, react, want_resolve>>
       ELSE /\ parent_id' = ParseCommentRef(Item)
            /\ body' = ReplyBody(Item, fp, ParseCommentRef(Item))
            /\ react' = EffReact(doc, Item)
            /\ want_resolve' = WantResolve(doc, Item)
            /\ pc' = "scan"
            /\ out' = <<>>
            /\ UNCHANGED <<idx, had_error, line, exit_status>>
    /\ http' = 0
    /\ answer' = NoAnswer
    /\ calls' = {}
    /\ UNCHANGED <<ret, doc, dry_run, fp, prompts, remote, fetched, wrote, nStart>>

\* lines 232-243: the idempotency marker scan
Scan ==
    /\ pc = "scan"
    /\ Call({"list"})
    /\ \E listed \in BOOLEAN :
          IF ~listed
          THEN ScanFailed
          ELSE IF AlreadyReplied(comments, parent_id, fp)
          THEN Skipped
          ELSE /\ pc' = "reply"
               /\ Quiet
               /\ UNCHANGED <<idx, had_error, locals>>
    /\ http' = 0
    /\ answer' = NoAnswer
    /\ UNCHANGED <<ret, doc, dry_run, fp, exit_status, prompts, remote, nStart>>

\* lines 245-258: post the reply
Reply ==
    /\ pc = "reply"
    /\ IF dry_run
       THEN /\ Say("REPLY", parent_id, "DRY RUN")
            /\ ToReact
            /\ NoCall
            /\ UNCHANGED <<had_error, comments>>
       ELSE /\ Call({"reply"})
            /\ \E posted \in BOOLEAN :
                  IF posted
                  THEN /\ Posted < MaxPosts
                       /\ parent_id \in CommentIds(comments)
                       /\ comments' = PlatformReply(comments, parent_id, body, idx)
                       /\ Say("REPLY", parent_id, "ok")
                       /\ ToReact
                       /\ had_error' = had_error
                  ELSE /\ comments' = comments
                       /\ Say("REPLY", parent_id, "error")
                       /\ OnError(ToReact)
    /\ http' = 0
    /\ answer' = NoAnswer
    /\ UNCHANGED <<ret, doc, dry_run, fp, exit_status, prompts, resolved, nStart>>

\* lines 260-282 with _react_to_review_comment (125-130).  The program
\* never reads reactions back, so the platform's reactions are not kept:
\* the call is recorded in calls and wrote.
React ==
    /\ pc = "react"
    /\ IF dry_run
       THEN /\ Say("REACT", parent_id, "DRY RUN")
            /\ ToResolve
            /\ http' = 0
            /\ NoCall
            /\ had_error' = had_error
       ELSE /\ Call({"react"})
            /\ \E status \in ReactStatuses :
                  /\ http' = status
                  /\ IF ~ReactRaises(status)
                     THEN /\ Say("REACT", parent_id, "ok")
                          /\ ToResolve
                          /\ had_error' = had_error
                     ELSE IF status = 422
                     THEN /\ Say("REACT", parent_id, "exists")
                          /\ ToResolve
                          /\ had_error' = had_error
                     ELSE /\ Say("REACT", parent_id, "error")
                          /\ OnError(ToResolve)
    /\ answer' = NoAnswer
    /\ UNCHANGED <<ret, doc, dry_run, fp, exit_status, prompts, comments,
                   resolved, nStart>>

\* lines 284-306: look the thread up, resolve it unless it is resolved
Resolve ==
    /\ pc = "resolve"
    /\ IF dry_run
       THEN /\ Say("RESOLVE", parent_id, "DRY RUN")
            /\ Continue
            /\ NoCall
            /\ UNCHANGED <<had_error, resolved>>
       ELSE \E node \in BOOLEAN, thread \in BOOLEAN, mutated \in BOOLEAN :
               LET thread_id == RootOf(comments, parent_id) IN
               IF ~node \/ parent_id \notin CommentIds(comments)
               THEN /\ Call({"node"})
                    /\ resolved' = resolved
                    /\ Say("RESOLVE", parent_id, "error")
                    /\ OnError(Continue)
               ELSE IF ~thread
               THEN /\ Call({"node", "thread"})
                    /\ resolved' = resolved
                    /\ Say("RESOLVE", parent_id, "error")
                    /\ OnError(Continue)
               ELSE IF IsResolved(thread_id)
               THEN /\ Call({"node", "thread"})
                    /\ resolved' = resolved
                    /\ Say("RESOLVE thread", thread_id, "already")
                    /\ Continue
                    /\ had_error' = had_error
               ELSE /\ Call({"node", "thread", "resolve"})
                    /\ IF mutated
                       THEN /\ resolved' = resolved \cup {thread_id}
                            /\ Say("RESOLVE thread", thread_id, "ok")
                            /\ Continue
                            /\ had_error' = had_error
                       ELSE /\ resolved' = resolved
                            /\ Say("RESOLVE", parent_id, "error")
                            /\ OnError(Continue)
    /\ http' = 0
    /\ answer' = NoAnswer
    /\ UNCHANGED <<ret, doc, dry_run, fp, exit_status, prompts, comments, nStart>>

\* lines 308-309: the exit status
Report ==
    /\ pc = "report"
    /\ pc' = "done"
    /\ exit_status' = ExitCode
    /\ http' = 0
    /\ answer' = NoAnswer
    /\ UNCHANGED <<ret, doc, dry_run, fp, idx, had_error, prompts, locals, remote,
                   calls, fetched, wrote, nStart, line, out>>

\* main, lines 739-745: the next invocation on the same file
StartRun ==
    /\ pc \in Terminal
    /\ Posted < MaxPosts
    /\ dry_run' \in BOOLEAN
    /\ pc' = "validate"
    /\ fp' = NoFp
    /\ idx' = 0
    /\ had_error' = FALSE
    /\ exit_status' = -1
    /\ prompts' = 0
    /\ ClearLocals
    /\ calls' = {}
    /\ fetched' = FALSE
    /\ wrote' = FALSE
    /\ nStart' = Len(comments)
    /\ line' = NoLine
    /\ out' = <<>>
    /\ answer' = NoAnswer
    /\ http' = 0
    /\ UNCHANGED <<ret, doc, remote>>

Next ==
    \/ Validate
    \/ Gate
    \/ ItemBegin
    \/ Scan
    \/ Reply
    \/ React
    \/ Resolve
    \/ Report
    \/ StartRun

Spec == Init /\ [][Next]_vars

(* ============== runs of a job file that is edited in between ========== *)
InitEdit ==
    /\ doc \in EditDocs
    /\ dry_run \in BOOLEAN
    /\ pc = "validate"
    /\ fp = NoFp
    /\ idx = 0
    /\ had_error = FALSE
    /\ exit_status = -1
    /\ prompts = 0
    /\ parent_id = 0
    /\ body = NoBody
    /\ react = JNull
    /\ want_resolve = FALSE
    /\ comments = InitComments
    /\ resolved = InitResolved
    /\ calls = {}
    /\ fetched = FALSE
    /\ wrote = FALSE
    /\ nStart = Len(InitComments)
    /\ line = NoLine
    /\ out = <<>>
    /\ answer = NoAnswer
    /\ http = 0
    /\ ret = "none"

\* main, lines 739-745: the next invocation, on the file after an edit
EditJob ==
    /\ pc \in Terminal
    /\ Posted < MaxPosts
    /\ doc' \in EditDocs \ {doc}
    /\ dry_run' \in BOOLEAN
    /\ pc' = "validate"
    /\ fp' = NoFp
    /\ idx' = 0
    /\ had_error' = FALSE
    /\ exit_status' = -1
    /\ prompts' = 0
    /\ ClearLocals
    /\ calls' = {}
    /\ fetched' = FALSE
    /\ wrote' = FALSE
    /\ nStart' = Len(comments)
    /\ line' = NoLine
    /\ out' = <<>>
    /\ answer' = NoAnswer
    /\ http' = 0
    /\ UNCHANGED <<ret, remote>>

NextEdit ==
    \/ Validate
    \/ Gate
    \/ ItemBegin
    \/ Scan
    \/ Reply
    \/ React
    \/ Resolve
    \/ Report
    \/ StartRun
    \/ EditJob

SpecEdit == InitEdit /\ [][NextEdit]_vars

(* ====================== the single `reply` command ==================== *)
\* comment ids given on the command line; 9 names no review comment
ReplyIds == {1, 2, 3, 9}

\* reply texts given on the command line
ReplyTexts == {<<"e">>, <<"F", " ">>}

\* statuses of the GET of a comment, and of the POST of a reply
GetStatuses  == {200, 404}
PostStatuses == {200, 201, 404, 500}

\* the command reads no job document
NoDoc == JNull

\* the process starts in main with the arguments of `reply`
InitReply ==
    /\ doc = NoDoc
    /\ dry_run = FALSE
    /\ pc = "cmd"
    /\ fp = NoFp
    /\ idx = 0
    /\ had_error = FALSE
    /\ exit_status = -1
    /\ prompts = 0
    /\ parent_id = 0
    /\ body = NoBody
    /\ react = JNull
    /\ want_resolve = FALSE
    /\ comments = InitComments
    /\ resolved = InitResolved
    /\ calls = {}
    /\ fetched = FALSE
    /\ wrote = FALSE
    /\ nStart = Len(InitComments)
    /\ line = NoLine
    /\ out = <<>>
    /\ answer = NoAnswer
    /\ http = 0
    /\ ret = "none"

\* what the command leaves alone
batchOnly == <<doc, dry_run, fp, idx, had_error, prompts, react, want_resolve,
               resolved, nStart, out, answer>>

\* return True / return False
Return(value) ==
    /\ ret' = (IF value THEN "True" ELSE "False")
    /\ pc' = "returned"

\* lines 557-569: the verdict on the POST's response
ReturnFor(status) ==
    IF status \in {200, 201}
    THEN /\ line' = Line("Reply posted successfully!", parent_id, "")
         /\ Return(TRUE)
    ELSE /\ line' = Line("Failed to post reply", parent_id, "")
         /\ Return(FALSE)

\* lines 571-573: except Exception: return False
ReturnRaised ==
    /\ line' = Line("Error posting reply", parent_id, "")
    /\ http' = 0
    /\ Return(FALSE)

\* main, lines 715-726, and lines 484-496: read the arguments and detect
\* the comment's type.  This GET is made before the try block: if it
\* raises, the exception leaves the process.
ReplyDetect ==
    /\ pc = "cmd"
    /\ \E id \in ReplyIds, text \in ReplyTexts, status \in GetStatuses \cup {0} :
          /\ parent_id' = id
          /\ body' = [text |-> text, markers |-> NoMarkers]
          /\ http' = status
          /\ IF status = 0
             THEN /\ pc' = "crashed"
                  /\ exit_status' = 1
                  /\ line' = line
             ELSE /\ pc' = (IF status = 200 THEN "issue" ELSE "review")
                  /\ exit_status' = exit_status
                  /\ line' = Line("Type", id, IF status = 200 THEN "issue" ELSE "review")
    /\ Call({"get"})
    /\ UNCHANGED <<batchOnly, comments, ret>>

\* lines 499-520 with get_comment_author (575-587), then 557-573: the
\* reply to an issue comment.  Issue comments are not review comments and
\* the command never lists them, so the one posted is recorded in calls
\* and wrote only.
ReplyIssue ==
    /\ pc = "issue"
    /\ \E raised \in BOOLEAN, status \in PostStatuses :
          IF raised
          THEN /\ Call({"get"})
               /\ ReturnRaised
          ELSE /\ Call({"get", "reply"})
               /\ http' = status
               /\ ReturnFor(status)
    /\ UNCHANGED <<batchOnly, comments, parent_id, body, exit_status>>

\* lines 522-555, then 557-573: the reply to a review comment
ReplyReview ==
    /\ pc = "review"
    /\ \E raised \in BOOLEAN, got \in GetStatuses, status \in PostStatuses :
          IF raised
          THEN /\ Call({"get"})
               /\ comments' = comments
               /\ body' = body
               /\ ReturnRaised
          ELSE IF got # 200 \/ parent_id \notin CommentIds(comments)
          THEN /\ Call({"get"})
               /\ comments' = comments
               /\ body' = body
               /\ http' = 404
               /\ line' = Line("Could not fetch original comment details", parent_id, "")
               /\ Return(FALSE)
          ELSE /\ Call({"get", "reply"})
               /\ body' = (IF RootOf(comments, parent_id) # parent_id
                           THEN [body EXCEPT !.text = <<"@u", " ">> \o body.text]
                           ELSE body)
               /\ comments' = (IF status \in {200, 201}
                               THEN PlatformReply(comments, parent_id, body', 0)
                               ELSE comments)
               /\ http' = status
               /\ ReturnFor(status)
    /\ UNCHANGED <<batchOnly, parent_id, exit_status>>

\* main, line 726 and the end of main: the value reply_to_comment returned
\* is dropped and the process ends as any script does
ReplyExit ==
    /\ pc = "returned"
    /\ pc' = "exited"
    /\ exit_status' = 0
    /\ UNCHANGED <<batchOnly, comments, parent_id, body, calls, fetched, wrote,
                   line, http, ret>>

\* the next invocation of the command
StartReply ==
    /\ pc \in {"exited", "crashed"}
    /\ Posted < MaxPosts
    /\ pc' = "cmd"
    /\ exit_status' = -1
    /\ parent_id' = 0
    /\ body' = NoBody
    /\ calls' = {}
    /\ fetched' = FALSE
    /\ wrote' = FALSE
    /\ line' = NoLine
    /\ http' = 0
    /\ ret' = "none"
    /\ UNCHANGED <<batchOnly, comments>>

NextReply ==
    \/ ReplyDetect
    \/ ReplyIssue
    \/ ReplyReview
    \/ ReplyExit
    \/ StartReply

SpecReply == InitReply /\ [][NextReply]_vars


(* ======================== properties of the runs ====================== *)
\* the fingerprint of the job document: the one the current run computed
\* or, before it has, the one its file gives
JobFp == IF fp # NoFp THEN fp ELSE CHOOSE f \in LoadFps[doc] : TRUE

\* thread roots of the pull request
RootIds == {InitComments[k].id : k \in {j \in 1..Len(InitComments) :
                                          InitComments[j].in_reply_to_id = JNull}}

\* the parent comment id replies[i] resolves to
ItemParent(i) == ParseCommentRef(Replies(doc)[i])

\* the comments that carry marker(fp, p)
MarkerReplies(p) ==
    {k \in 1..Len(comments) : Marker(JobFp, p) \in comments[k].body.markers}

\* a reply carrying marker(fp, p) existed when the current run began
MarkedAtStart(p) == \E k \in MarkerReplies(p) : k <= nStart

\* the replies created for replies[i]
RepliesFor(i) == {k \in 1..Len(comments) : comments[k].item = i}

(* C1: under sequential runs of one job document, a thread root never has
   more than one reply carrying marker(fp, root), and a run that began
   when such a reply existed makes no reply, react or resolve call for an
   item that resolves to that root. *)
C1_Idempotent ==
    /\ \A p \in RootIds : Cardinality(MarkerReplies(p)) <= 1
    /\ \A c \in calls :
          (ItemParent(c[1]) \in RootIds /\ MarkedAtStart(ItemParent(c[1])))
              => c[2] \notin Mutating

\* a later run of the job skipped root 1, whose reply an earlier run posted
C1_Witness ==
    /\ pc = "done"
    /\ ~dry_run
    /\ nStart > Len(InitComments)
    /\ MarkedAtStart(1)
    /\ line = Line("REPLY", 1, "skipped (marker)")
    /\ calls = {<<idx - 1, "list">>}
    /\ ~wrote

(* C2: at the end of the first error-free, non-dry run of a job, every item
   whose reference resolves has exactly one reply posted for it, also when
   two items resolve to the same parent. *)
C2_ExactlyOncePerItem ==
    (pc = "done" /\ ~dry_run /\ ~had_error /\ nStart = Len(InitComments))
        => \A i \in 1..Len(Replies(doc)) :
              RefOk(Replies(doc)[i]) => Cardinality(RepliesFor(i)) = 1

(* C3: a run that began when a reply carrying marker(fp, p) for a non-root
   parent p existed posts no reply for an item that resolves to p. *)
C3_NonRootIdempotent ==
    \A c \in calls :
        (c[2] = "reply" /\ ItemParent(c[1]) \notin RootIds)
            => ~MarkedAtStart(ItemParent(c[1]))

(* C4: under fail_on_error, once a step has failed the run is at Reporting
   or over, and no further call, report line or item follows in that run;
   without fail_on_error a run that is at Reporting or has ended after
   Executing has taken up every item of replies[]. *)
C4_FailFast ==
    /\ []((had_error /\ FailOnError(doc)) => pc \in {"report", "done"})
    /\ []((pc \in {"report", "done"} /\ ~FailOnError(doc))
              => idx = Len(Replies(doc)) + 1)
    /\ []((pc = "crashed" /\ ~FailOnError(doc)) => idx = Len(Replies(doc)))
    /\ [][(had_error /\ FailOnError(doc) /\ pc' # "validate")
              => UNCHANGED <<idx, calls, fetched, wrote, comments, resolved, line>>]_vars

(* C5: in a dry run no mutating transport call is made, no prompt is shown,
   and the platform's comments and threads stay as they were. *)
C5_DryRunPure ==
    /\ [](dry_run => /\ ~wrote
                     /\ prompts = 0
                     /\ \A c \in calls : c[2] \notin Mutating
                     /\ Len(comments) = nStart)
    /\ [][(dry_run /\ pc \notin Terminal) => UNCHANGED <<comments, resolved>>]_vars

\* a dry run under a policy that asks for confirmation went through reply,
\* react and resolve of an item with only the marker scan as transport call
C5_Witness ==
    /\ dry_run
    /\ pc = "done"
    /\ ConfirmWanted(doc)
    /\ line.step = "RESOLVE"
    /\ line.what = "DRY RUN"
    /\ calls = {<<idx - 1, "list">>}
    /\ fetched

(* C6: the effective resolve of an item is its own resolve value when it
   has one, else policy.auto_resolve; the effective reaction is its own
   react when it has one, else policy.react_default. *)
C6_ItemOverride ==
    pc \in {"scan", "reply", "react", "resolve"} =>
        /\ want_resolve = IF Has(Item, "resolve")
                          THEN Item.resolve.b
                          ELSE Truthy(PolicyGet(doc, "auto_resolve"))
        /\ react = IF Has(Item, "react")
                   THEN Item.react
                   ELSE PolicyGet(doc, "react_default")

\* policy.confirm is true, or missing
ConfirmIsTrue ==
    IF Has(doc, "policy") /\ Has(doc.policy, "confirm")
    THEN doc.policy.confirm = JBool(TRUE)
    ELSE TRUE

\* the answers that are "y" up to case and surrounding blanks
YesAnswers == {<<"y">>, <<"Y">>, <<" ", "y">>, <<" ", "Y">>, <<"y", " ">>, <<"Y", " ">>}

(* C7: a run past the gate has shown exactly one prompt if policy.confirm
   is true (or missing) and the run is not a dry run, and none otherwise;
   any answer other than a yes ends the run with exit status 0 and without
   a transport call, and a yes starts Executing. *)
C7_ConfirmGate ==
    /\ prompts <= 1
    /\ pc \notin {"validate", "gate", "rejected"}
          => (prompts = 1 <=> (ConfirmIsTrue /\ ~dry_run))
    /\ pc = "aborted" => /\ ~wrote
                         /\ ~fetched
                         /\ Len(comments) = nStart
                         /\ exit_status = 0
                         /\ prompts = 1
    /\ answer # NoAnswer => IF answer \in YesAnswers
                            THEN pc = "item" /\ idx = 1
                            ELSE pc = "aborted"

\* the prompt was answered "n" and the run ended
C7_Witness ==
    /\ pc = "aborted"
    /\ answer = <<"n">>
    /\ prompts = 1
    /\ ~wrote
    /\ exit_status = 0

(* C8: for a job document that passes validation the process ends with a
   non-zero status exactly when fail_on_error is set and a step error
   occurred during the run; without fail_on_error it ends with status 0
   however many items failed. *)
C8_ExitStatus ==
    /\ pc \notin Terminal => exit_status = -1
    /\ (pc \in Terminal /\ ValidSpec(doc))
          => /\ exit_status \in {0, 1}
             /\ exit_status # 0 <=> (FailOnError(doc) /\ had_error)
             /\ ~FailOnError(doc) => exit_status = 0

\* the job documents the data model rules out
NotWellFormed(d) ==
    \/ ~Has(d, "meta")
    \/ ~Has(d.meta, "owner") \/ ~Has(d.meta, "repo") \/ ~Has(d.meta, "pr")
    \/ d.meta.owner.t # "str"
    \/ d.meta.repo.t # "str"
    \/ d.meta.pr.t # "int"
    \/ d.meta.pr.n <= 0
    \/ ~Has(d, "replies")
    \/ d.replies.t # "list"
    \/ d.replies.l = <<>>

(* C9: a job document with a missing or ill-typed owner, repo or pr, with
   a pr that is not a positive integer, or without a non-empty replies
   list is rejected at validation with a non-zero exit, before any
   transport call and any prompt. *)
C9_RejectedBeforeNetwork ==
    NotWellFormed(doc) =>
        /\ pc \in {"validate", "rejected"}
        /\ ~fetched
        /\ prompts = 0
        /\ pc = "rejected" => exit_status # 0

(* C10: when the reaction call answers 422 the line printed is
   "REACT <parent>: exists", had_error is not set by it, and the run goes
   on to the resolve step. *)
C10_ReactionExists ==
    http = 422 =>
        /\ line.step = "REACT"
        /\ line.what = "exists"

\* the step a report line is about
StepOf(l) ==
    CASE l.step = "REPLY" -> "reply"
      [] l.step = "REACT" -> "react"
      [] l.step \in {"RESOLVE", "RESOLVE thread"} -> "resolve"
      [] OTHER -> "none"

\* the action being taken is a step of the current item: a failed
\* reference resolution, a marker scan that skips or fails, a reply, a
\* react or a resolve
StepDone ==
    \/ pc \in {"reply", "react", "resolve"}
    \/ pc = "scan" /\ pc' # "reply"
    \/ pc = "item" /\ pc' \notin {"scan", "crashed"}

(* C11: every step taken for an item, attempted or simulated, prints
   exactly one report line, about that step; nothing else prints during
   Executing; the item's lines are about distinct steps; and every
   mutating call of the item has a line for its step. *)
C11_Audit ==
    /\ [](\A i \in 1..Len(out) : \A j \in 1..Len(out) :
              i # j => StepOf(out[i]) # StepOf(out[j]))
    /\ [](\A c \in calls : c[2] \in Mutating
              => \E i \in 1..Len(out) : StepOf(out[i]) = c[2])
    /\ [][StepDone => /\ Len(out') = (IF pc = "item" THEN 1 ELSE Len(out) + 1)
                      /\ line' = out'[Len(out')]
                      /\ StepOf(line') = (IF pc \in {"item", "scan"} THEN "reply" ELSE pc)]_vars
    /\ [][~StepDone => out' \in {out, <<>>}]_vars

\* an item of a real run went through reply, react and resolve: three
\* calls, three lines
C11_Witness ==
    /\ ~dry_run
    /\ pc \in {"item", "report"}
    /\ {c[2] : c \in calls} \cap Mutating = Mutating
    /\ Len(out) = 3
    /\ StepOf(out[1]) = "reply"
    /\ StepOf(out[2]) = "react"
    /\ StepOf(out[3]) = "resolve"

\* the item carries a numeric comment_id
HasId(it) == Has(it, "comment_id") /\ it.comment_id.t = "int"

\* the item's comment URL ends in #discussion_r<d>, d one digit
HasFragment(it) ==
    /\ Has(it, "comment")
    /\ it.comment.t = "str"
    /\ Len(it.comment.s) >= 2
    /\ it.comment.s[Len(it.comment.s) - 1] = "#discussion_r"
    /\ it.comment.s[Len(it.comment.s)] \in Digits

\* the item has no usable reference: no comment_id or a null one, and no
\* comment URL or one that does not end in the fragment
NoReference(it) ==
    /\ ~Has(it, "comment_id") \/ it.comment_id = JNull
    /\ ~HasFragment(it)

(* C12: an item with comment_id n resolves to n, whatever its comment URL;
   an item without comment_id whose URL ends in #discussion_r<d> resolves
   to d; an item with neither fails: the failure sets had_error, prints
   one error line, makes no transport call and changes nothing on the
   platform, and the loop goes on to the next item, or stops under
   fail_on_error. *)
C12_ReferenceResolution ==
    /\ []((pc \in {"scan", "reply", "react", "resolve", "crashed"} /\ HasId(Item))
              => parent_id = Item.comment_id.n)
    /\ []((pc \in {"scan", "reply", "react", "resolve", "crashed"}
              /\ ~Has(Item, "comment_id") /\ HasFragment(Item))
              => parent_id = DigitVal(Item.comment.s[Len(Item.comment.s)]))
    /\ [][(pc = "item" /\ NoReference(Item))
              => /\ had_error'
                 /\ out' = <<Line("REPLY", 0, "error")>>
                 /\ calls' = {}
                 /\ UNCHANGED <<fetched, wrote, comments, resolved>>
                 /\ IF FailOnError(doc)
                    THEN pc' = "report" /\ idx' = idx
                    ELSE /\ idx' = idx + 1
                         /\ pc' = IF idx < Len(Replies(doc)) THEN "item" ELSE "report"]_vars

\* item 1 had no reference and item 2, taken up next, resolved to the id
\* in its URL's fragment
C12_Witness ==
    /\ pc = "scan"
    /\ idx = 2
    /\ NoReference(Replies(doc)[1])
    /\ ~Has(Item, "comment_id")
    /\ HasFragment(Item)
    /\ parent_id = 3
    /\ had_error
    /\ ~fetched

\* the job documents that differ from d in the body of one item
BodyVariants(d) ==
    {[d EXCEPT !.replies.l[i].body = b] :
        i \in 1..Len(d.replies.l), b \in {JStr(<<"z">>), JNull}} \ {d}

\* the fingerprints of the documents that differ from a job document in
\* the body of one item
VariantFps ==
    [d \in {e \in Docs : ValidSpec(e)} |->
        {Fingerprint(JsonLoad(v, FALSE)) : v \in BodyVariants(d)}]

(* C13: the fingerprint a run computes is the same for every key order of
   the file's objects and differs from that of every document with another
   body in some item; it is computed once per run; and the body of every
   item, and every reply the run posts, carries the marker made from it. *)
C13_FingerprintStable ==
    /\ [](pc = "gate" => LoadFps[doc] = {fp})
    /\ [](pc = "gate" => fp \notin VariantFps[doc])
    /\ [][fp' # fp => (pc = "validate" \/ pc' = "validate")]_vars
    /\ [](pc \in {"scan", "reply", "react", "resolve"}
              => body.markers = {Marker(fp, parent_id)})
    /\ [](\A k \in (nStart + 1)..Len(comments) :
              comments[k].body.markers = {Marker(fp, ItemParent(comments[k].item))})

\* a run has posted the replies of two items, both with the marker of the
\* one fingerprint that the file gives in either key order
C13_Witness ==
    /\ pc = "done"
    /\ Len(comments) = nStart + 2
    /\ JsonLoad(doc, TRUE) # JsonLoad(doc, FALSE)
    /\ fp = Fingerprint(JsonLoad(doc, TRUE))
    /\ fp = Fingerprint(JsonLoad(doc, FALSE))
    /\ \A k \in (nStart + 1)..Len(comments) : \E mk \in comments[k].body.markers : mk.fp = fp


(* C14: when the `reply` command has ended after reply_to_comment returned,
   the exit status is zero if it returned True and non-zero if it returned
   False. *)
C14_ReplyExitStatus ==
    pc = "exited" =>
        /\ ret = "True" => exit_status = 0
        /\ ret = "False" => exit_status # 0


(* C15: a run whose marker scan for an item starts after a reply carrying
   the marker of the job and the item's parent has been posted posts no
   second reply: a reply is posted for a parent only when no comment
   carries that marker yet. *)
C15_NoSecondReply ==
    [][(pc = "reply" /\ Len(comments') > Len(comments))
          => MarkerReplies(parent_id) = {}]_vars


\* an earlier run posted the reply of item i of the job document
PostedBefore(i) ==
    \E k \in (Len(InitComments) + 1)..nStart : comments[k].item = i

(* C16: an item whose reply an earlier run posted is skipped by every later
   run of the same job document: the run never gets to its reply, reaction
   or resolve step and makes no mutating call for it; and a skip makes no
   reply, react or resolve call and goes on to the next item. *)
C16_SkipStrands ==
    /\ [](pc \in {"reply", "react", "resolve"} => ~PostedBefore(idx))
    /\ [](\A c \in calls : PostedBefore(c[1]) => c[2] \notin Mutating)
    /\ [][(pc = "scan" /\ line' = Line("REPLY", parent_id, "skipped (marker)"))
            => /\ idx' = idx + 1
               /\ pc' \in {"item", "report"}
               /\ \A c \in calls' : c[2] \notin Mutating]_vars


\* the step the loop is at has just failed
StepFailed(step) ==
    /\ pc = step
    /\ line' \in {Line("REPLY", parent_id, "error"), Line("REACT", parent_id, "error"),
                  Line("RESOLVE", parent_id, "error"),
                  Line("REPLY", parent_id, "error during marker scan")}

(* C17: without fail_on_error, a failed reply is followed by the item's
   reaction step when it has an effective reaction, else by its resolve
   step when its effective resolve is true, and a failed reaction is
   followed by the resolve step when its effective resolve is true; with
   fail_on_error, a failure of any step ends the loop at once, at the
   item it is in. *)
C17_ErrorIsolation ==
    [][/\ (StepFailed("reply") /\ ~FailOnError(doc))
            => /\ had_error'
               /\ IF Truthy(react) THEN pc' = "react" /\ idx' = idx
                  ELSE IF want_resolve THEN pc' = "resolve" /\ idx' = idx
                  ELSE idx' = idx + 1
       /\ (StepFailed("react") /\ ~FailOnError(doc))
            => /\ had_error'
               /\ IF want_resolve THEN pc' = "resolve" /\ idx' = idx
                  ELSE idx' = idx + 1
       /\ (pc \in {"reply", "react", "resolve"} /\ pc' \in {"react", "resolve"})
            => UNCHANGED <<idx, parent_id, body, react, want_resolve>>
       /\ ((StepFailed("scan") \/ StepFailed("reply") \/ StepFailed("react")
               \/ StepFailed("resolve")) /\ FailOnError(doc))
            => /\ had_error'
               /\ pc' = "report"
               /\ idx' = idx]_vars

\* the reply of an item failed, its reaction was tried and failed too, and
\* its resolve step is next
C17_Witness ==
    /\ pc = "resolve"
    /\ ~FailOnError(doc)
    /\ out = <<Line("REPLY", parent_id, "error"), Line("REACT", parent_id, "error")>>


\* the transport calls the step being taken makes
NewCalls == calls' \ calls

\* item i's calls among cs, by kind
KindsOf(cs, i) == {c[2] : c \in {d \in cs : d[1] = i}}

(* C18: within a run the loop moves through the items in document order,
   one at a time; every call a step makes is for the item the loop is at;
   a step makes at most one mutating call; the reply is posted only after
   the item's marker scan and before any call of its reaction or resolve
   step; the reaction call comes after the reply call and before any call
   of the resolve step; the resolve call comes after the reply call and,
   when the item has an effective reaction, after the reaction call. *)
C18_Ordering ==
    [][/\ pc' # "validate" => idx' \in {idx, idx + 1}
       /\ pc' = "validate" \/ pc = "item" \/ calls \subseteq calls'
       /\ pc # "item" =>
            /\ \A c \in NewCalls : c[1] = idx
            /\ Cardinality({c \in NewCalls : c[2] \in Mutating}) <= 1
            /\ "reply" \in KindsOf(NewCalls, idx)
                 => /\ "list" \in KindsOf(calls, idx)
                    /\ KindsOf(calls, idx) \cap {"react", "node", "thread", "resolve"} = {}
            /\ "react" \in KindsOf(NewCalls, idx)
                 => /\ "reply" \in KindsOf(calls, idx)
                    /\ KindsOf(calls, idx) \cap {"node", "thread", "resolve"} = {}
            /\ KindsOf(NewCalls, idx) \cap {"node", "thread", "resolve"} # {}
                 => /\ "reply" \in KindsOf(calls, idx)
                    /\ Truthy(react) => "react" \in KindsOf(calls, idx)]_vars

\* the second item of a job has been scanned, replied to, reacted to and
\* resolved
C18_Witness ==
    /\ idx = 3
    /\ KindsOf(calls, 2) = {"list", "reply", "react", "node", "thread", "resolve"}


(* C19: the resolve step is taken only for an item whose effective resolve
   is true; in a non-dry run the resolveReviewThread mutation is sent only
   after both lookups, for a thread that is not resolved, and only it
   changes the resolved threads; for a thread that is already resolved no
   mutation is sent, and the line is "already" with the error flag
   unchanged unless a lookup failed; a step that ends without the mutation
   being sent changes nothing and, unless the thread was already resolved,
   is reported as a RESOLVE error that sets the error flag. *)
C19_ResolveOnlyUnresolved ==
    /\ [](pc = "resolve" => (want_resolve /\ want_resolve = WantResolve(doc, Item)))
    /\ [][resolved' # resolved
             => (pc = "resolve" /\ "resolve" \in KindsOf(NewCalls, idx))]_vars
    /\ [][(pc = "resolve" /\ ~dry_run) =>
            LET thread_id == RootOf(comments, parent_id)
                sent == "resolve" \in KindsOf(NewCalls, idx)
                failed == line' = Line("RESOLVE", parent_id, "error")
                already == line' = Line("RESOLVE thread", thread_id, "already")
            IN  /\ sent => /\ {"node", "thread"} \subseteq KindsOf(calls', idx)
                           /\ parent_id \in CommentIds(comments)
                           /\ thread_id \notin resolved
                           /\ resolved' \subseteq resolved \cup {thread_id}
                /\ (parent_id \in CommentIds(comments) /\ thread_id \in resolved)
                       => /\ ~sent
                          /\ already \/ failed
                /\ already => /\ thread_id \in resolved
                              /\ "thread" \in KindsOf(calls', idx)
                              /\ had_error' = had_error
                /\ ~sent => /\ resolved' = resolved
                            /\ already \/ failed
                /\ failed => had_error'
                /\ failed \/ already \/ line' = Line("RESOLVE thread", thread_id, "ok")]_vars

\* a run has found the thread of an item already resolved and has gone on
\* without an error
C19_Witness ==
    /\ pc \in {"item", "report"}
    /\ ~dry_run
    /\ ~had_error
    /\ \E i \in 1..Len(Replies(doc)) :
          /\ idx = i + 1
          /\ RefOk(Replies(doc)[i])
          /\ line = Line("RESOLVE thread", RootOf(comments, ItemParent(i)), "already")
          /\ KindsOf(calls, i) \cap {"thread", "resolve"} = {"thread"}


(* C20: after a reaction call, a response of 200, 201 or 422 is not an
   error, and every other status is reported as a REACT error and sets
   the error flag. *)
C20_ReactionStatus ==
    http # 0 =>
        /\ line.step = "REACT"
        /\ http \in {200, 201, 422} => line.what # "error"
        /\ http \notin {200, 201, 422} => (line.what = "error" /\ had_error)


\* the text of an item's body as the job document gives it
OriginalBody(it) == IF Has(it, "body") /\ it.body.t = "str" THEN it.body.s ELSE <<>>

\* what the reply to item `it` is to read in a run with fingerprint f
MarkedBody(it, f) ==
    [text    |-> RStrip(OriginalBody(it)) \o <<"\n", "\n">>,
     markers |-> {Marker(f, ParseCommentRef(it))}]

(* C21: in a non-dry run the body given to the reply call of an item is
   the item's body without its trailing whitespace, a blank line, and the
   marker of this run's fingerprint and the item's parent; every reply the
   run has posted reads so; and every such reply that is listed with
   in_reply_to_id equal to its item's parent is found by _already_replied
   for that parent and fingerprint. *)
C21_MarkedReply ==
    /\ [][(pc = "reply" /\ <<idx, "reply">> \in NewCalls)
            => /\ ~dry_run
               /\ parent_id = ParseCommentRef(Item)
               /\ body = MarkedBody(Item, fp)]_vars
    /\ [](\A k \in (nStart + 1)..Len(comments) :
              LET it == Replies(doc)[comments[k].item]
              IN  /\ comments[k].body = MarkedBody(it, fp)
                  /\ comments[k].in_reply_to_id = JInt(ParseCommentRef(it))
                       => AlreadyReplied(comments, ParseCommentRef(it), fp))

\* the run has posted the reply of an item whose body ends in whitespace,
\* and the reply is listed under the item's parent
C21_Witness ==
    \E k \in (nStart + 1)..Len(comments) :
        LET it == Replies(doc)[comments[k].item]
        IN  /\ RStrip(OriginalBody(it)) # OriginalBody(it)
            /\ comments[k].in_reply_to_id = JInt(ParseCommentRef(it))


\* the marker scan of the item the loop is at has just raised
ScanRaised ==
    /\ pc = "scan"
    /\ Len(out') > Len(out)
    /\ out'[Len(out')].what = "error during marker scan"

(* C22: when the marker scan of an item raises, in a dry run as in a real
   one, the error flag is set, that one line is all the item reports, the
   listing is the only call made for the item, nothing on the platform
   changes, and the loop goes to the next item, or to the exit code under
   fail_on_error; and the reply step is reached only from a scan that
   completed and found no marker. *)
C22_ScanFailsClosed ==
    /\ [][ScanRaised
            => /\ had_error'
               /\ out' = <<Line("REPLY", parent_id, "error during marker scan")>>
               /\ line' = Line("REPLY", parent_id, "error during marker scan")
               /\ KindsOf(calls', idx) = {"list"}
               /\ UNCHANGED <<comments, resolved>>
               /\ IF FailOnError(doc)
                  THEN pc' = "report" /\ idx' = idx
                  ELSE pc' \in {"item", "report"} /\ idx' = idx + 1]_vars
    /\ [][(pc' = "reply" /\ pc # "reply")
            => /\ pc = "scan"
               /\ ~ScanRaised
               /\ had_error' = had_error
               /\ ~AlreadyReplied(comments, parent_id, fp)]_vars
    /\ [](\A c \in calls : c[2] \in Mutating
              => out # <<>> /\ out[1].what # "error during marker scan")

\* a dry run without fail_on_error has gone on to its second item after
\* the marker scan of the first raised
C22_Witness ==
    /\ pc = "item"
    /\ idx = 2
    /\ dry_run
    /\ had_error
    /\ ~FailOnError(doc)
    /\ calls = {<<1, "list">>}
    /\ out = <<Line("REPLY", ItemParent(1), "error during marker scan")>>


(* C23: a run of a job document that passed validation visits the items
   in turn up to the end of replies[] and, once it has posted a reply,
   does not end by an uncaught exception on a later item's content: it
   goes on to the exit code of lines 308-309. *)
C23_ReachesReporting ==
    /\ pc \in {"item", "scan", "reply", "react", "resolve"}
          => idx \in 1..Len(Replies(doc))
    /\ pc = "crashed" => Len(comments) = nStart


\* comment c is a reply under parent p that carries a marker of p made
\* from a fingerprint of job document d
MarkedBy(c, p, d) ==
    /\ c.in_reply_to_id = JInt(p)
    /\ \E mk \in c.body.markers : mk.parent = p /\ mk.fp \in LoadFps[d]

\* the marker scan of the item the loop is at has just completed
ScanCompleted == pc = "scan" /\ ~ScanRaised

(* C24: two job documents that differ in a field have different
   fingerprints; a completed scan skips an item only when a reply under
   its parent carries a marker made from a fingerprint of the document
   being run; and when no reply under the parent does, whatever markers of
   other documents the parent's replies carry, the run goes on to post the
   reply. *)
C24_KeyedByFingerprint ==
    /\ [](\A d \in EditDocs : \A e \in EditDocs \ {d} : LoadFps[d] \cap LoadFps[e] = {})
    /\ [][(ScanCompleted /\ pc' # "reply")
            => \E k \in 1..Len(comments) : MarkedBy(comments[k], parent_id, doc)]_vars
    /\ [][(ScanCompleted /\ \A k \in 1..Len(comments) : ~MarkedBy(comments[k], parent_id, doc))
            => /\ pc' = "reply"
               /\ UNCHANGED <<idx, parent_id, body>>]_vars
    /\ [][(pc = "reply" /\ ~dry_run /\ Len(comments') > Len(comments))
            => /\ comments'[Len(comments')].body = body
               /\ body.markers = {Marker(fp, parent_id)}
               /\ fp \in LoadFps[doc]]_vars

\* a run of an edited job document has posted a reply under a parent that
\* already had a reply with the same text from a run of the document
\* before the edit
C24_Witness ==
    \E k \in (Len(InitComments) + 1)..nStart : \E j \in (nStart + 1)..Len(comments) :
        /\ comments[k].in_reply_to_id = comments[j].in_reply_to_id
        /\ comments[k].body.text = comments[j].body.text
        /\ comments[k].body.markers # comments[j].body.markers
        /\ \E mk \in comments[k].body.markers : mk.parent = ItemParent(comments[j].item)

====
